---- MODULE Spec2Model ----
(***************************************************************************)
(* Model of shex's command execution engine (src/shex/tools.py) with the   *)
(* parts of the Spinner (src/shex/spinner.py) the engine drives.           *)
(*                                                                         *)
(* One behaviour is one call of execute_command.  The engine's control     *)
(* thread is a program counter `pc` over the statements of execute_command *)
(* and _execute_with_pty; the child process, its descendants, the user at  *)
(* the keyboard and the clock are environment actions that interleave with *)
(* it.  On the pipe path the reader thread read_stdout has its own counter *)
(* `rpc`.                                                                  *)
(***************************************************************************)
EXTENDS Integers, Sequences, FiniteSets, TLC

(* ------------------------------ bounds -------------------------------- *)
\* chunks the child and its descendants write in one behaviour
MaxWrites == 2
\* chunks the channel (pty buffer / pipe) holds at a time
MaxChan == 1
\* keystrokes the user types in one behaviour
MaxKeys == 1

\* calls of start, stop and write the calling thread makes on one Spinner
MaxCalls == 4
\* length of the texts process_carriage_return is applied to
MaxText == 6
\* calls of the model the agent makes in one behaviour
MaxLlmCalls == 2
\* largest value of config.max_retries
MaxRetries == 2

(* ------------------------------ values -------------------------------- *)
None == "None"
\* a Python value that is None or an int: None is the empty tuple, n is <<n>>
NoInt == <<>>
Int_(n) == <<n>>
IsInt(v) == Len(v) = 1
Commands == {"ls", "rm -rf /"}
DefaultCommand == "ls"
\* the terminal's input modes; "raw" is what tty.setraw installs
UserModes == {"cooked"}
\* stdin is not a terminal
NoTty == "notty"
\* bytes the child can write: two ASCII letters, CR, LF and the two bytes of
\* the UTF-8 encoding of one accented letter (lead byte C3, continuation A9);
\* a read may end between the two
CR == "\r"
LF == "\n"
Chunks == { <<"A", CR, "C3">>, <<"A9", "B", LF>> }
\* exit statuses the child may exit with, and signals that may kill it
ExitStatuses == {0, 7}
Signals == {1, 2, 3}
SIGKILL == 9

(* --------------------------- pure functions --------------------------- *)
RECURSIVE DecodeFrom(_, _)
\* bytes.decode('utf-8', errors='replace') on the model's byte alphabet: a
\* lead byte followed by its continuation byte is one letter, a lead byte
\* without it or a stray continuation byte becomes U+FFFD (written "?")
DecodeFrom(data, i) ==
    IF i > Len(data) THEN <<>>
    ELSE IF data[i] = "C3"
         THEN IF i + 1 <= Len(data) /\ data[i + 1] = "A9"
              THEN <<"e'">> \o DecodeFrom(data, i + 2)
              ELSE <<"?">> \o DecodeFrom(data, i + 1)
    ELSE IF data[i] = "A9" THEN <<"?">> \o DecodeFrom(data, i + 1)
    ELSE <<data[i]>> \o DecodeFrom(data, i + 1)

decode(data) == DecodeFrom(data, 1)

RECURSIVE join(_, _)
\* sep.join(parts) for sequences of character sequences
join(sep, parts) ==
    IF parts = <<>> THEN <<>>
    ELSE IF Len(parts) = 1 THEN parts[1]
    ELSE parts[1] \o sep \o join(sep, Tail(parts))

RECURSIVE pcr_loop(_, _, _, _)
\* the while loop of process_carriage_return: i is 1-based here
pcr_loop(text, i, lines, current_line) ==
    IF i > Len(text)
    THEN IF current_line # <<>> THEN Append(lines, current_line) ELSE lines
    ELSE IF text[i] = LF
         THEN pcr_loop(text, i + 1, Append(lines, current_line), <<>>)
    ELSE IF text[i] = CR
         THEN IF i + 1 <= Len(text) /\ text[i + 1] = LF
              THEN pcr_loop(text, i + 2, Append(lines, current_line), <<>>)
              ELSE pcr_loop(text, i + 1, lines, <<>>)
    ELSE pcr_loop(text, i + 1, lines, Append(current_line, text[i]))

\* faulty variant: the shortcut tests for a newline instead of a carriage
\* return
process_carriage_return_lf_test(text) ==
    IF \A i \in 1..Len(text) : text[i] # LF
    THEN text
    ELSE join(<<LF>>, pcr_loop(text, 1, <<>>, <<>>))

\* faulty variant: no shortcut, every text goes through the loop
process_carriage_return_no_shortcut(text) ==
    join(<<LF>>, pcr_loop(text, 1, <<>>, <<>>))

process_carriage_return(text) ==
    IF \A i \in 1..Len(text) : text[i] # CR
    THEN text
    ELSE join(<<LF>>, pcr_loop(text, 1, <<>>, <<>>))

(* ------------------------------- state -------------------------------- *)
VARIABLES
    \* the request
    command, is_dangerous, confirm_fn, platform,
    \* the engine's control thread
    pc, exc, result, confirm_calls,
    \* the Spinner created for the request
    spinner_running, spinner_thread, spinner_starts,
    \* the controlling terminal
    pre_mode, term_mode, old_tty_attrs, raw_entered,
    \* the channel and the engine's descriptors on it
    master_fd, slave_fd, chan, ready,
    \* the child process, as the kernel sees it, and process.returncode
    child, child_status, child_end, desc_end, kill_sent, nwrites, returncode,
    \* captured output, the chunk in hand, and what reached the real terminal
    data, output_data, read_log, tty_out, tty_locked,
    \* keyboard input
    stdin_buf, child_in, nkeys,
    \* whether time.time() - start_time exceeds the timeout, and which way the
    \* call went
    expired, timed_out, fault,
    \* the pipe path's reader thread and its decoder's pending bytes
    rpc, rchar, rpending,
    \* the Spinner taken by itself, statement by statement: self.visible,
    \* who holds self.lock, self.message, the clock and self.last_print_time
    \* (both in steps longer than the 0.1 s of the debounce test), what the
    \* terminal's current line shows, where each
    \* _spin thread stands, where the calling thread stands in start, stop or
    \* write, the call that returned last, and the calls made so far
    visible, lock, message, now, last_print_time, line, spin_pc, call,
    last_call, ncalls,
    \* process_carriage_return taken by itself: its argument, its result and
    \* whether it has been applied
    raw_text, normalized, applied,
    \* ShexAgent: the callbacks set on it and config.max_retries
    stream_fn, continue_fn, start_spinner, max_retries,
    \* where run stands, what it returned, self.messages, and the calls of
    \* the model made so far
    run_pc, run_result, messages, llm_calls,
    \* the thinking animation (the Spinner whose start and stop are the
    \* agent's callbacks), the message it was last started with,
    \* self.next_spinner_message, and whether a tool call was handled since
    \* the animation was last started
    thinking, thinking_message, next_spinner_message, handled,
    \* the response being processed: first_chunk, tool_calls (the id of each
    \* call), the position of the for loop over them, the success of the
    \* command in hand
    first_chunk, tool_calls, tc_index, tool_success,
    \* retry_count, total_retries, the arguments continue_fn was called
    \* with; the commands spawned in this run, the executions that failed
    \* in this run, and how many had failed at the last approval
    retry_count, total_retries, continue_calls, executed, failed, approved_at

vars == << command, is_dangerous, confirm_fn, platform, pc, exc, result,
           confirm_calls, spinner_running, spinner_thread, spinner_starts,
           pre_mode, term_mode, old_tty_attrs, raw_entered,
           master_fd, slave_fd, chan, ready, child, child_status, child_end,
           desc_end, kill_sent, nwrites, returncode, data, output_data,
           read_log, tty_out, stdin_buf, child_in, nkeys, expired, timed_out, fault,
           rpc, rchar, rpending, tty_locked,
           visible, lock, message, now, last_print_time, line, spin_pc,
           call, last_call,
           ncalls, raw_text, normalized, applied,
           stream_fn, continue_fn, start_spinner, max_retries,
           run_pc, run_result, messages, llm_calls,
           thinking, thinking_message, next_spinner_message, handled,
           first_chunk, tool_calls, tc_index, tool_success,
           retry_count, total_retries, continue_calls, executed, failed,
           approved_at >>

requestVars == << command, is_dangerous, confirm_fn, platform, pre_mode >>
spinnerVars == << spinner_running, spinner_thread, spinner_starts >>
termVars    == << term_mode, old_tty_attrs, raw_entered >>
fdVars      == << master_fd, slave_fd >>
childVars   == << child, child_status, child_end, desc_end, kill_sent, nwrites >>
keyVars     == << stdin_buf, child_in, nkeys >>
readerVars  == << rpc, rchar, rpending >>

stdin_tty == pre_mode # NoTty
captureVars == << data, output_data, read_log, tty_out, tty_locked >>
\* the variables of the Spinner and of process_carriage_return taken by
\* themselves; no step of the engine touches them
agentConfig == << stream_fn, continue_fn, start_spinner, max_retries >>
thinkVars == << thinking, thinking_message, next_spinner_message, handled >>
responseVars == << first_chunk, tool_calls, tc_index, tool_success >>
retryVars == << retry_count, total_retries, continue_calls, executed, failed,
                approved_at >>
agentVars == << agentConfig, run_pc, run_result, messages, llm_calls,
                thinkVars, responseVars, retryVars >>
unitVars == << visible, lock, message, now, last_print_time, line, spin_pc,
               call, last_call,
               ncalls, raw_text, normalized, applied, agentVars >>

NoResult == [kind |-> "none"]
Result(success, output, error, return_code) ==
    [kind |-> "result", success |-> success, output |-> output,
     error |-> error, return_code |-> return_code]

\* ''.join(output_data)
joined(chunks) == join(<<>>, chunks)

\* the _spin threads one Spinner can come to have: one per call of start
Threads == 1..MaxCalls
\* the message argument of Spinner.start
Messages == {None, "executing"}
\* what the terminal's current line can show
Frame == "frame"
Content == "content"

\* a call of a Spinner method with its message argument (None: not given)
Called(op, arg) == [op |-> op, arg |-> arg]

\* the Spinner after __init__: not running, no thread, lock free, nothing
\* drawn, last_print_time = 0 (so no recent write)
SpinnerIdle ==
    /\ visible = FALSE
    /\ lock = "free"
    /\ message = "Thinking..."
    /\ now = 1
    /\ last_print_time = 0
    /\ line = <<>>
    /\ spin_pc = [t \in Threads |-> "unborn"]
    /\ call = "idle"
    /\ last_call = Called(None, None)
    /\ ncalls = 0

\* the characters of the texts given to process_carriage_return
Alphabet == {"A", "B", CR, LF}

RECURSIVE Texts(_)
\* the texts of length n
Texts(n) ==
    IF n = 0 THEN { <<>> }
    ELSE { Append(t, c) : t \in Texts(n - 1), c \in Alphabet }

\* process_carriage_return not called
NormalizeIdle ==
    /\ raw_text = <<>>
    /\ normalized = <<>>
    /\ applied = FALSE

\* a ShexAgent as constructed, before run is called; t("thinking") and
\* t("analyzing") are the two messages of the thinking animation
NoRunResult == [kind |-> "none"]
AgentIdle ==
    /\ run_pc = "idle" /\ run_result = NoRunResult
    /\ messages = << [role |-> "system", tool_calls |-> <<>>,
                      tool_call_id |-> None] >>
    /\ llm_calls = 0
    /\ thinking = FALSE /\ thinking_message = "Thinking..."
    /\ next_spinner_message = None /\ handled = FALSE
    /\ first_chunk = TRUE /\ tool_calls = <<>> /\ tc_index = 1
    /\ tool_success = TRUE
    /\ retry_count = 0 /\ total_retries = 0 /\ continue_calls = <<>>
    /\ executed = 0 /\ failed = 0 /\ approved_at = 0

\* no agent is at work: nothing is set on it
NoAgent ==
    /\ stream_fn = None /\ continue_fn = None /\ start_spinner = None
    /\ max_retries = 1
    /\ AgentIdle

Init ==
    /\ NoAgent
    /\ command \in Commands
    /\ is_dangerous \in BOOLEAN
    /\ confirm_fn \in {None, "fn"}
    \* the command text is looked at by the callback alone
    /\ (is_dangerous /\ confirm_fn # None) \/ command = DefaultCommand
    /\ platform \in {"posix", "Windows"}
    \* termios exists off Windows only
    /\ pre_mode \in IF platform = "Windows" THEN {NoTty}
                                            ELSE UserModes \cup {NoTty}
    /\ term_mode = pre_mode
    /\ pc = "confirm"
    /\ exc = None
    /\ result = NoResult
    /\ confirm_calls = <<>>
    /\ spinner_running = FALSE
    /\ spinner_thread = FALSE
    /\ spinner_starts = 0
    /\ old_tty_attrs = None
    /\ raw_entered = FALSE
    /\ master_fd = "unopened"
    /\ slave_fd = "unopened"
    /\ chan = <<>>
    /\ ready = {}
    /\ child = "none"
    /\ child_status = NoInt
    /\ child_end = FALSE
    /\ desc_end = FALSE
    /\ kill_sent = FALSE
    /\ nwrites = 0
    /\ returncode = NoInt
    /\ data = <<>>
    /\ output_data = <<>>
    /\ read_log = <<>>
    /\ tty_out = <<>>
    /\ tty_locked = <<>>
    /\ stdin_buf = <<>>
    /\ child_in = <<>>
    /\ nkeys = 0
    /\ expired = FALSE
    /\ timed_out = FALSE
    /\ fault = None
    /\ rpc = "unstarted"
    /\ rchar = <<>>
    /\ rpending = <<>>
    /\ SpinnerIdle
    /\ NormalizeIdle

PtyPath == platform # "Windows"

\* the call is in progress; the model follows it until it returns
Running == pc # "returned"

(* ------------------------ library operations -------------------------- *)
\* Spinner.start with no message: a no-op while running, otherwise sets the
\* flag and starts the animation thread
SpinnerStart ==
    IF spinner_running
    THEN UNCHANGED spinnerVars
    ELSE /\ spinner_running' = TRUE
         /\ spinner_thread' = TRUE
         /\ spinner_starts' = spinner_starts + 1

\* Spinner.stop: clears the flag under the lock and joins the thread
SpinnerStop ==
    /\ spinner_running' = FALSE
    /\ spinner_thread' = FALSE
    /\ UNCHANGED spinner_starts

\* what Spinner.write(content) puts on the terminal: nothing once stopped
SpinnerWrite(content) ==
    IF spinner_running THEN Append(tty_out, content) ELSE tty_out

\* Spinner.write writes inside `with self.lock`
SpinnerWriteLocked ==
    IF spinner_running THEN Append(tty_locked, TRUE) ELSE tty_locked

\* no process holds the write side of the channel any more
Hangup == ~child_end /\ ~desc_end

\* Popen.poll(): collects the exit status of a terminated child
PollEffect ==
    IF returncode = NoInt /\ child = "zombie"
    THEN /\ returncode' = child_status
         /\ child' = "reaped"
    ELSE UNCHANGED << returncode, child >>

\* Popen.kill(): polls first and signals only a child not known to be dead
KillEffect ==
    /\ PollEffect
    /\ kill_sent' = (kill_sent \/ (returncode = NoInt /\ child = "running"))
    /\ UNCHANGED << child_status, child_end, desc_end, nwrites >>

\* the Popen object is released when the frame that owns it is left; its
\* finalizer collects a child that has already terminated and leaves a
\* running one alone
ReleaseProcess ==
    /\ PollEffect
    /\ UNCHANGED << child_status, child_end, desc_end, kill_sent, nwrites >>

(* ------------------------- execute_command ---------------------------- *)
\* the text the confirmation callback is called with
ConfirmArg(cmd) == cmd

\* faulty variant: the decline carries the engine-fault code
DeclinedResultWrongCode == Result(FALSE, <<>>, "user_cancelled", Int_(-3))

DeclinedResult == Result(FALSE, <<>>, "user_cancelled", Int_(-1))

\* faulty variant: the callback is asked and its answer is not looked at
ConfirmIgnoresAnswer ==
    /\ pc = "confirm"
    /\ IF is_dangerous /\ confirm_fn # None
       THEN \E answer \in BOOLEAN :
            confirm_calls' = Append(confirm_calls,
                    [arg |-> command, answer |-> answer])
       ELSE UNCHANGED confirm_calls
    /\ pc' = "spinner_start"
    /\ UNCHANGED << requestVars, unitVars, exc, result, spinnerVars, termVars, fdVars,
                    chan, ready, childVars, returncode, captureVars, keyVars,
                    expired, timed_out, fault, readerVars >>

\* the callback's answer is the user's: either one
Confirm ==
    /\ pc = "confirm"
    /\ IF is_dangerous /\ confirm_fn # None
       THEN \E answer \in BOOLEAN :
            /\ confirm_calls' = Append(confirm_calls,
                    [arg |-> ConfirmArg(command), answer |-> answer])
            /\ IF ~answer
               THEN /\ result' = DeclinedResult
                    /\ pc' = "returned"
               ELSE /\ pc' = "spinner_start"
                    /\ UNCHANGED result
       ELSE /\ pc' = "spinner_start"
            /\ UNCHANGED << confirm_calls, result >>
    /\ UNCHANGED << requestVars, unitVars, exc, spinnerVars, termVars, fdVars, chan,
                    ready, childVars, returncode, captureVars, keyVars, expired,
                    timed_out, fault, readerVars >>

StartSpinner ==
    /\ pc = "spinner_start"
    /\ SpinnerStart
    /\ pc' = IF PtyPath THEN "openpty" ELSE "win_popen"
    /\ UNCHANGED << requestVars, unitVars, exc, result, confirm_calls, termVars, fdVars,
                    chan, ready, childVars, returncode, captureVars, keyVars,
                    expired, timed_out, fault, readerVars >>

\* an exception with this text propagates to the handler at `to`: the
\* finally block when it is raised inside the try of _execute_with_pty, the
\* except clause of execute_command otherwise; `fault` remembers it
Raise(text, to) ==
    /\ exc' = text
    /\ fault' = text
    /\ pc' = to

(* ------------------------ _execute_with_pty --------------------------- *)
Openpty ==
    /\ pc = "openpty"
    /\ master_fd' = "open"
    /\ slave_fd' = "open"
    /\ pc' = "setraw"
    /\ UNCHANGED << requestVars, unitVars, exc, result, confirm_calls, spinnerVars,
                    termVars, chan, ready, childVars, returncode, captureVars,
                    keyVars, expired, timed_out, fault, readerVars >>

OpenptyFails ==
    /\ pc = "openpty"
    /\ Raise("OSError: out of pty devices", "except")
    /\ UNCHANGED << requestVars, unitVars, result, confirm_calls, spinnerVars, termVars,
                    fdVars, chan, ready, childVars, returncode, captureVars,
                    keyVars, expired, timed_out, readerVars >>

\* tcgetattr fails when stdin is no terminal; setraw may fail after tcgetattr
\* succeeded, which leaves old_tty_attrs set and the mode as it was
Setraw ==
    /\ pc = "setraw"
    /\ IF stdin_tty
       THEN /\ old_tty_attrs' = term_mode
            /\ \/ /\ term_mode' = "raw"
                  /\ raw_entered' = TRUE
               \/ UNCHANGED << term_mode, raw_entered >>
       ELSE UNCHANGED termVars
    /\ pc' = "popen"
    /\ UNCHANGED << requestVars, unitVars, exc, result, confirm_calls, spinnerVars,
                    fdVars, chan, ready, childVars, returncode, captureVars,
                    keyVars, expired, timed_out, fault, readerVars >>

SpawnChild ==
    /\ child' = "running"
    /\ child_end' = TRUE
    /\ UNCHANGED << child_status, desc_end, kill_sent, nwrites >>

Popen ==
    /\ pc = "popen"
    /\ SpawnChild
    /\ pc' = "close_slave"
    /\ UNCHANGED << requestVars, unitVars, exc, result, confirm_calls, spinnerVars,
                    termVars, fdVars, chan, ready, returncode, captureVars,
                    keyVars, expired, timed_out, fault, readerVars >>

PopenFails ==
    /\ pc = "popen"
    /\ Raise("FileNotFoundError: /bin/bash", "except")
    /\ UNCHANGED << requestVars, unitVars, result, confirm_calls, spinnerVars, termVars,
                    fdVars, chan, ready, childVars, returncode, captureVars,
                    keyVars, expired, timed_out, readerVars >>

CloseSlave ==
    /\ pc = "close_slave"
    /\ slave_fd' = "closed"
    /\ pc' = "set_nonblock"
    /\ UNCHANGED << requestVars, unitVars, exc, result, confirm_calls, spinnerVars,
                    termVars, master_fd, chan, ready, childVars, returncode,
                    captureVars, keyVars, expired, timed_out, fault,
                    readerVars >>

SetNonblock ==
    /\ pc = "set_nonblock"
    /\ pc' = "check_timeout"
    /\ UNCHANGED << requestVars, unitVars, exc, result, confirm_calls, spinnerVars,
                    termVars, fdVars, chan, ready, childVars, returncode,
                    captureVars, keyVars, expired, timed_out, fault,
                    readerVars >>

SetNonblockFails ==
    /\ pc = "set_nonblock"
    /\ Raise("OSError: fcntl", "except")
    /\ UNCHANGED << requestVars, unitVars, result, confirm_calls, spinnerVars, termVars,
                    fdVars, chan, ready, childVars, returncode, captureVars,
                    keyVars, expired, timed_out, readerVars >>

\* faulty variant: the timeout result is built like the fault result, without output
TimeoutResultDropsOutput == Result(FALSE, <<>>, "command_timeout", Int_(-2))

TimeoutResult == Result(FALSE, process_carriage_return(joined(output_data)),
                        "command_timeout", Int_(-2))

CheckTimeout ==
    /\ pc = "check_timeout"
    /\ IF expired
       THEN /\ KillEffect
            /\ result' = TimeoutResult
            /\ timed_out' = TRUE
            /\ pc' = "finally"
       ELSE /\ pc' = "select"
            /\ UNCHANGED << childVars, returncode, result, timed_out >>
    /\ UNCHANGED << requestVars, unitVars, exc, confirm_calls, spinnerVars, termVars,
                    fdVars, chan, ready, captureVars, keyVars, expired,
                    fault, readerVars >>

\* what select reports: the master side is readable when it holds data or
\* has been hung up, stdin when the user has typed; an empty set is the
\* 0.1 s wait running out
Readable(rlist) ==
    { f \in rlist : IF f = "master" THEN chan # <<>> \/ Hangup
                                     ELSE stdin_buf # <<>> }

Select ==
    /\ pc = "select"
    /\ LET rlist == IF old_tty_attrs # None THEN {"master", "stdin"}
                                            ELSE {"master"}
       IN  /\ ready' = Readable(rlist)
           /\ pc' = IF "master" \in ready' THEN "read_master"
                    ELSE IF "stdin" \in ready' THEN "read_stdin"
                    ELSE "poll"
    /\ UNCHANGED << requestVars, unitVars, exc, result, confirm_calls, spinnerVars,
                    termVars, fdVars, chan, childVars, returncode, captureVars,
                    keyVars, expired, timed_out, fault, readerVars >>

SelectFails ==
    /\ pc \in {"select", "drain_select"}
    /\ Raise("ValueError: filedescriptor out of range in select()", "finally")
    /\ UNCHANGED << requestVars, unitVars, result, confirm_calls, spinnerVars, termVars,
                    fdVars, chan, ready, childVars, returncode, captureVars,
                    keyVars, expired, timed_out, readerVars >>

\* os.read(master_fd, 4096): a chunk, or end of output (b'' or EIO) once the
\* channel is empty and hung up; both ends of output leave the loop
ReadChunk(at, next) ==
    /\ pc = at
    /\ IF chan # <<>>
       THEN /\ data' = Head(chan)
            /\ chan' = Tail(chan)
            /\ read_log' = Append(read_log, Head(chan))
            /\ pc' = next
       ELSE /\ pc' = "finally"
            /\ UNCHANGED << data, chan, read_log >>
    /\ UNCHANGED << requestVars, unitVars, exc, result, confirm_calls, spinnerVars,
                    termVars, fdVars, ready, childVars, returncode,
                    output_data, tty_out, tty_locked, keyVars, expired, timed_out,
                    fault, readerVars >>

ReadMaster == ReadChunk("read_master", "stop_spinner")

\* os.read raising OSError for a reason other than hang-up: the handler
\* leaves the loop exactly as for end of output
ReadMasterFails ==
    /\ pc \in {"read_master", "drain_read"}
    /\ fault' = "OSError: read"
    /\ pc' = "finally"
    /\ UNCHANGED << requestVars, unitVars, exc, result, confirm_calls, spinnerVars,
                    termVars, fdVars, chan, ready, childVars, returncode,
                    captureVars, keyVars, expired, timed_out,
                    readerVars >>

\* faulty variant: the animation is left running when output arrives
StopOnDataSkipped(at, next) ==
    /\ pc = at
    /\ pc' = next
    /\ UNCHANGED << requestVars, unitVars, exc, result, confirm_calls,
                    spinnerVars, termVars, fdVars, chan, ready, childVars,
                    returncode, captureVars, keyVars, expired, timed_out,
                    fault, readerVars >>

StopOnData(at, next) ==
    /\ pc = at
    /\ IF spinner_running THEN SpinnerStop ELSE UNCHANGED spinnerVars
    /\ pc' = next
    /\ UNCHANGED << requestVars, unitVars, exc, result, confirm_calls, termVars, fdVars,
                    chan, ready, childVars, returncode, captureVars, keyVars,
                    expired, timed_out, fault, readerVars >>

StopSpinnerOnData == StopOnData("stop_spinner", "forward")

\* with old_tty_attrs set the bytes go straight to stdout, otherwise through
\* Spinner.write
ForwardChunk(at, next) ==
    /\ pc = at
    /\ tty_out' = IF old_tty_attrs # None
                  THEN Append(tty_out, data)
                  ELSE SpinnerWrite(decode(data))
    \* os.write(sys.stdout.fileno(), ...) is made without taking the lock
    /\ tty_locked' = IF old_tty_attrs # None
                     THEN Append(tty_locked, FALSE)
                     ELSE SpinnerWriteLocked
    /\ pc' = next
    /\ UNCHANGED << requestVars, unitVars, exc, result, confirm_calls, spinnerVars,
                    termVars, fdVars, chan, ready, childVars, returncode,
                    data, output_data, read_log, keyVars, expired,
                    timed_out, fault, readerVars >>

Forward == ForwardChunk("forward", "append")

\* faulty variant: the chunk is put in front of the captured buffer
AppendChunkInFront(at, next) ==
    /\ pc = at
    /\ output_data' = << decode(data) >> \o output_data
    /\ data' = <<>>
    /\ pc' = next
    /\ UNCHANGED << requestVars, unitVars, exc, result, confirm_calls,
                    spinnerVars, termVars, fdVars, chan, ready, childVars,
                    returncode, read_log, tty_out, tty_locked, keyVars,
                    expired, timed_out, fault, readerVars >>

AppendChunk(at, next) ==
    /\ pc = at
    /\ output_data' = Append(output_data, decode(data))
    /\ data' = <<>>
    /\ pc' = next
    /\ UNCHANGED << requestVars, unitVars, exc, result, confirm_calls, spinnerVars,
                    termVars, fdVars, chan, ready, childVars, returncode,
                    read_log, tty_out, tty_locked, keyVars, expired, timed_out,
                    fault, readerVars >>

AppendOutput ==
    AppendChunk("append", IF "stdin" \in ready THEN "read_stdin" ELSE "poll")

\* the keystrokes read from stdin are written to the master side
ReadStdin ==
    /\ pc = "read_stdin"
    /\ child_in' = child_in \o stdin_buf
    /\ stdin_buf' = <<>>
    /\ UNCHANGED nkeys
    /\ pc' = "poll"
    /\ UNCHANGED << requestVars, unitVars, exc, result, confirm_calls, spinnerVars,
                    termVars, fdVars, chan, ready, childVars, returncode,
                    captureVars, expired, timed_out, fault, readerVars >>

Poll ==
    /\ pc = "poll"
    /\ PollEffect
    /\ pc' = IF returncode' # NoInt THEN "drain_select" ELSE "check_timeout"
    /\ ready' = {}
    /\ UNCHANGED << requestVars, unitVars, exc, result, confirm_calls, spinnerVars,
                    termVars, fdVars, chan, child_status, child_end,
                    desc_end, kill_sent, nwrites, captureVars, keyVars, expired,
                    timed_out, fault, readerVars >>

DrainSelect ==
    /\ pc = "drain_select"
    /\ ready' = Readable({"master"})
    /\ pc' = IF ready' # {} THEN "drain_read" ELSE "finally"
    /\ UNCHANGED << requestVars, unitVars, exc, result, confirm_calls, spinnerVars,
                    termVars, fdVars, chan, childVars, returncode, captureVars,
                    keyVars, expired, timed_out, fault, readerVars >>

DrainRead == ReadChunk("drain_read", "drain_stop_spinner")

DrainStopSpinner == StopOnData("drain_stop_spinner", "drain_forward")

DrainForward == ForwardChunk("drain_forward", "drain_append")

DrainAppend == AppendChunk("drain_append", "drain_select")

Finally ==
    /\ pc = "finally"
    /\ term_mode' = IF old_tty_attrs # None THEN old_tty_attrs ELSE term_mode
    /\ master_fd' = "closed"
    /\ ready' = {}
    /\ pc' = IF exc # None THEN "except"
             ELSE IF result # NoResult THEN "pty_return"
             ELSE "build_result"
    /\ UNCHANGED << requestVars, unitVars, exc, result, confirm_calls, spinnerVars,
                    old_tty_attrs, raw_entered, slave_fd, chan,
                    childVars, returncode, captureVars, keyVars, expired,
                    timed_out, fault, readerVars >>

\* faulty variant: the child's result reports success whatever the status
ChildResultAlwaysSucceeds == Result(TRUE,
                      process_carriage_return(joined(output_data)),
                      "", returncode)

ChildResult == Result(returncode = Int_(0),
                      process_carriage_return(joined(output_data)),
                      "", returncode)

BuildResult ==
    /\ pc = "build_result"
    /\ result' = ChildResult
    /\ pc' = "pty_return"
    /\ UNCHANGED << requestVars, unitVars, exc, confirm_calls, spinnerVars, termVars,
                    fdVars, chan, ready, childVars, returncode, captureVars,
                    keyVars, expired, timed_out, fault, readerVars >>

\* back in execute_command: _execute_with_pty's frame is gone, the spinner
\* is stopped and the result returned
PtyReturn ==
    /\ pc = "pty_return"
    /\ ReleaseProcess
    /\ SpinnerStop
    /\ pc' = "returned"
    /\ UNCHANGED << requestVars, unitVars, exc, result, confirm_calls, termVars, fdVars,
                    chan, ready, captureVars, keyVars, expired,
                    timed_out, fault, readerVars >>

FaultResult == Result(FALSE, <<>>, exc, Int_(-3))

ExceptHandler ==
    /\ pc = "except"
    /\ SpinnerStop
    /\ result' = FaultResult
    /\ exc' = None
    /\ ReleaseProcess
    /\ pc' = "returned"
    /\ UNCHANGED << requestVars, unitVars, confirm_calls, termVars, fdVars, chan, ready,
                    captureVars, keyVars, expired, timed_out, fault,
                    readerVars >>

(* -------------------- execute_command, pipe path ---------------------- *)
WinPopen ==
    /\ pc = "win_popen"
    /\ SpawnChild
    /\ pc' = "start_reader"
    /\ UNCHANGED << requestVars, unitVars, exc, result, confirm_calls, spinnerVars,
                    termVars, fdVars, chan, ready, returncode, captureVars,
                    keyVars, expired, timed_out, fault, readerVars >>

WinPopenFails ==
    /\ pc = "win_popen"
    /\ Raise("OSError: cannot spawn shell", "except")
    /\ UNCHANGED << requestVars, unitVars, result, confirm_calls, spinnerVars, termVars,
                    fdVars, chan, ready, childVars, returncode, captureVars,
                    keyVars, expired, timed_out, readerVars >>

StartReader ==
    /\ pc = "start_reader"
    /\ rpc' = "read"
    /\ pc' = "wait"
    /\ UNCHANGED << requestVars, unitVars, exc, result, confirm_calls, spinnerVars,
                    termVars, fdVars, chan, ready, childVars, returncode,
                    captureVars, keyVars, expired, timed_out, fault,
                    rchar, rpending >>

\* the text-mode pipe decodes incrementally: bytes of an unfinished letter
\* wait for the next read, and are replaced at end of file
IncrementalDecode(pending, bytes) ==
    LET b == pending \o bytes
    IN  IF b # <<>> /\ b[Len(b)] = "C3"
        THEN [text |-> decode(SubSeq(b, 1, Len(b) - 1)), pending |-> <<"C3">>]
        ELSE [text |-> decode(b), pending |-> <<>>]

\* read_stdout: process.stdout.read(1) blocks until the pipe holds data or
\* every write end is closed; the model reads what one write delivered at a
\* time, and what is read is appended at once (no blocking call lies between
\* the read and the append)
ReaderRead ==
    /\ Running
    /\ rpc = "read"
    /\ IF chan # <<>>
       THEN LET d == IncrementalDecode(rpending, Head(chan))
            IN  /\ rchar' = d.text
                /\ rpending' = d.pending
                /\ chan' = Tail(chan)
                /\ read_log' = Append(read_log, Head(chan))
                /\ output_data' = Append(output_data, d.text)
                /\ rpc' = "write"
       ELSE /\ Hangup
            /\ IF rpending # <<>>
               THEN /\ rchar' = decode(rpending)
                    /\ output_data' = Append(output_data, decode(rpending))
                    /\ rpc' = "write"
               ELSE /\ rpc' = "done"
                    /\ UNCHANGED << rchar, output_data >>
            /\ rpending' = <<>>
            /\ UNCHANGED << chan, read_log >>
    /\ UNCHANGED << requestVars, unitVars, pc, exc, result, confirm_calls, spinnerVars,
                    termVars, fdVars, ready, childVars, returncode, data,
                    tty_out, tty_locked, keyVars, expired, timed_out, fault >>

ReaderWrite ==
    /\ Running
    /\ rpc = "write"
    /\ tty_out' = SpinnerWrite(rchar)
    /\ tty_locked' = SpinnerWriteLocked
    /\ rchar' = <<>>
    /\ rpc' = "read"
    /\ UNCHANGED rpending
    /\ UNCHANGED << requestVars, unitVars, pc, exc, result, confirm_calls, spinnerVars,
                    termVars, fdVars, chan, ready, childVars, returncode, data,
                    output_data, read_log, keyVars, expired, timed_out,
                    fault >>

\* process.wait(timeout=timeout) returning: the child has terminated
Wait ==
    /\ pc = "wait"
    /\ child = "zombie"
    /\ PollEffect
    /\ pc' = "join"
    /\ UNCHANGED << requestVars, unitVars, exc, result, confirm_calls, spinnerVars,
                    termVars, fdVars, chan, ready, child_status, child_end,
                    desc_end, kill_sent, nwrites, captureVars, keyVars, expired,
                    timed_out, fault, readerVars >>

\* process.wait raising TimeoutExpired, and the kill that follows
WaitTimeout ==
    /\ pc = "wait"
    /\ child = "running"
    /\ expired
    /\ KillEffect
    /\ timed_out' = TRUE
    /\ pc' = "win_timeout_stop"
    /\ UNCHANGED << requestVars, unitVars, exc, result, confirm_calls, spinnerVars,
                    termVars, fdVars, chan, ready, captureVars, keyVars, expired,
                    fault, readerVars >>

\* faulty variant: the animation is left running on timeout
WinTimeoutNoStop ==
    /\ pc = "win_timeout_stop"
    /\ UNCHANGED spinnerVars
    /\ pc' = "win_timeout_join"
    /\ UNCHANGED << requestVars, unitVars, exc, result, confirm_calls, termVars, fdVars,
                    chan, ready, childVars, returncode, captureVars, keyVars,
                    expired, timed_out, fault, readerVars >>

WinTimeoutStop ==
    /\ pc = "win_timeout_stop"
    /\ SpinnerStop
    /\ pc' = "win_timeout_join"
    /\ UNCHANGED << requestVars, unitVars, exc, result, confirm_calls, termVars, fdVars,
                    chan, ready, childVars, returncode, captureVars, keyVars,
                    expired, timed_out, fault, readerVars >>

\* stdout_thread.join(timeout=1) returns when the reader has finished or the
\* second has passed with the reader blocked in its read or still reading
WinTimeoutReturn ==
    /\ pc = "win_timeout_join"
    /\ result' = TimeoutResult
    /\ ReleaseProcess
    /\ pc' = "returned"
    /\ UNCHANGED << requestVars, unitVars, exc, confirm_calls, spinnerVars, termVars,
                    fdVars, chan, ready, captureVars, keyVars, expired,
                    timed_out, fault, readerVars >>

\* stdout_thread.join() without a timeout
Join ==
    /\ pc = "join"
    /\ rpc = "done"
    /\ pc' = "win_stop"
    /\ UNCHANGED << requestVars, unitVars, exc, result, confirm_calls, spinnerVars,
                    termVars, fdVars, chan, ready, childVars, returncode,
                    captureVars, keyVars, expired, timed_out, fault,
                    readerVars >>

WinReturn ==
    /\ pc = "win_stop"
    /\ SpinnerStop
    /\ result' = ChildResult
    /\ ReleaseProcess
    /\ pc' = "returned"
    /\ UNCHANGED << requestVars, unitVars, exc, confirm_calls, termVars, fdVars, chan,
                    ready, captureVars, keyVars, expired, timed_out,
                    fault, readerVars >>

(* --------------------------- environment ------------------------------ *)
\* the engine still holds the read side of the channel
ChannelOpen == platform = "Windows" \/ master_fd = "open"

ChildWrites ==
    /\ Running /\ ChannelOpen
    /\ child = "running" /\ child_end
    /\ Len(chan) < MaxChan /\ nwrites < MaxWrites
    /\ \E c \in Chunks : chan' = Append(chan, c)
    /\ nwrites' = nwrites + 1
    /\ UNCHANGED << requestVars, unitVars, pc, exc, result, confirm_calls, spinnerVars,
                    termVars, fdVars, ready, child, child_status, child_end,
                    desc_end, kill_sent, returncode, captureVars, keyVars, expired,
                    timed_out, fault, readerVars >>

\* the child starts a background process that inherits the channel
ChildForks ==
    /\ Running /\ ChannelOpen
    /\ child = "running" /\ child_end /\ ~desc_end
    /\ desc_end' = TRUE
    /\ UNCHANGED << requestVars, unitVars, pc, exc, result, confirm_calls, spinnerVars,
                    termVars, fdVars, chan, ready, child, child_status,
                    child_end, kill_sent, nwrites, returncode, captureVars,
                    keyVars, expired, timed_out, fault, readerVars >>

\* the child closes its side of the channel and keeps running
ChildCloses ==
    /\ Running /\ ChannelOpen
    /\ child = "running" /\ child_end
    /\ child_end' = FALSE
    /\ UNCHANGED << requestVars, unitVars, pc, exc, result, confirm_calls, spinnerVars,
                    termVars, fdVars, chan, ready, child, child_status,
                    desc_end, kill_sent, nwrites, returncode, captureVars,
                    keyVars, expired, timed_out, fault, readerVars >>

\* the return code Popen reports for a child that exited with status s ...
ExitCode(s) == Int_(s)
\* ... and for one that a signal killed
SignalCode(sig) == Int_(0 - sig)

Terminate(code) ==
    /\ child' = "zombie"
    /\ child_status' = code
    /\ child_end' = FALSE
    /\ UNCHANGED << requestVars, unitVars, pc, exc, result, confirm_calls, spinnerVars,
                    termVars, fdVars, chan, ready, desc_end, kill_sent, nwrites,
                    returncode, captureVars, keyVars, expired, timed_out,
                    fault, readerVars >>

ChildExits ==
    /\ Running
    /\ child = "running"
    /\ \E s \in ExitStatuses : Terminate(ExitCode(s))

\* only POSIX reports a signal's number, negated, as the return code
ChildSignalled ==
    /\ Running /\ PtyPath
    /\ child = "running"
    /\ \E sig \in Signals : Terminate(SignalCode(sig))

\* the SIGKILL of process.kill() takes effect (on Windows, TerminateProcess
\* with exit code 1)
ChildKilled ==
    /\ Running
    /\ child = "running" /\ kill_sent
    /\ Terminate(IF PtyPath THEN SignalCode(SIGKILL) ELSE ExitCode(1))

DescendantWrites ==
    /\ Running /\ ChannelOpen
    /\ desc_end
    /\ Len(chan) < MaxChan /\ nwrites < MaxWrites
    /\ \E c \in Chunks : chan' = Append(chan, c)
    /\ nwrites' = nwrites + 1
    /\ UNCHANGED << requestVars, unitVars, pc, exc, result, confirm_calls, spinnerVars,
                    termVars, fdVars, ready, child, child_status, child_end,
                    desc_end, kill_sent, returncode, captureVars, keyVars, expired,
                    timed_out, fault, readerVars >>

DescendantExits ==
    /\ Running /\ ChannelOpen
    /\ desc_end
    /\ desc_end' = FALSE
    /\ UNCHANGED << requestVars, unitVars, pc, exc, result, confirm_calls, spinnerVars,
                    termVars, fdVars, chan, ready, child, child_status,
                    child_end, kill_sent, nwrites, returncode, captureVars,
                    keyVars, expired, timed_out, fault, readerVars >>

\* the user types while the command runs on the pty
UserTypes ==
    /\ Running /\ master_fd = "open" /\ child # "none"
    /\ stdin_tty /\ nkeys < MaxKeys
    /\ stdin_buf' = Append(stdin_buf, "k")
    /\ nkeys' = nkeys + 1
    /\ UNCHANGED << requestVars, unitVars, pc, exc, result, confirm_calls, spinnerVars,
                    termVars, fdVars, chan, ready, childVars, returncode,
                    captureVars, child_in, expired, timed_out, fault,
                    readerVars >>

\* the timeout runs out; time is observed only where a later statement reads
\* the clock (the loop of _execute_with_pty, process.wait)
Clocked == {"check_timeout", "select", "read_master", "stop_spinner",
            "forward", "append", "read_stdin", "poll", "wait"}

TimePasses ==
    /\ pc \in Clocked
    /\ ~expired
    /\ expired' = TRUE
    /\ UNCHANGED << requestVars, unitVars, pc, exc, result, confirm_calls, spinnerVars,
                    termVars, fdVars, chan, ready, childVars, returncode,
                    captureVars, keyVars, timed_out, fault,
                    readerVars >>

(* ---------------------------- specification --------------------------- *)
Control ==
    \/ Confirm \/ StartSpinner
    \/ Openpty \/ OpenptyFails \/ Setraw \/ Popen \/ PopenFails
    \/ CloseSlave \/ SetNonblock \/ SetNonblockFails
    \/ CheckTimeout \/ Select \/ SelectFails
    \/ ReadMaster \/ ReadMasterFails \/ StopSpinnerOnData \/ Forward
    \/ AppendOutput \/ ReadStdin \/ Poll
    \/ DrainSelect \/ DrainRead \/ DrainStopSpinner \/ DrainForward
    \/ DrainAppend
    \/ Finally \/ BuildResult \/ PtyReturn \/ ExceptHandler
    \/ WinPopen \/ WinPopenFails \/ StartReader
    \/ Wait \/ WaitTimeout \/ WinTimeoutStop \/ WinTimeoutReturn
    \/ Join \/ WinReturn

Reader == ReaderRead \/ ReaderWrite

Environment ==
    \/ ChildWrites \/ ChildForks \/ ChildCloses \/ ChildExits
    \/ ChildSignalled \/ ChildKilled
    \/ DescendantWrites \/ DescendantExits \/ UserTypes

Next == Control \/ Reader \/ Environment \/ TimePasses

Spec == Init /\ [][Next]_vars

\* the control thread and the reader thread are scheduled, and time passes;
\* nothing is assumed of the child, its descendants or the user
LiveSpec == Spec /\ WF_vars(Control) /\ WF_vars(Reader) /\ WF_vars(TimePasses)

(* ----------------------- the Spinner by itself ------------------------ *)
\* The Spinner's methods statement by statement: the calling thread makes up
\* to MaxCalls calls of start, stop and write, one after the other; every
\* _spin thread runs its loop; a `with self.lock` block is entered by one
\* step and its body is another.  The engine does not run here.
engineVars == << requestVars, pc, exc, result, confirm_calls, termVars,
                 fdVars, chan, ready, childVars, returncode, captureVars,
                 keyVars, expired, timed_out, fault, readerVars >>
normalizeVars == << raw_text, normalized, applied >>

\* no request is being executed
EngineIdle ==
    /\ command = DefaultCommand /\ is_dangerous = FALSE /\ confirm_fn = None
    /\ platform = "posix" /\ pre_mode = NoTty /\ term_mode = NoTty
    /\ pc = "confirm" /\ exc = None /\ result = NoResult
    /\ confirm_calls = <<>>
    /\ spinner_running = FALSE /\ spinner_thread = FALSE
    /\ spinner_starts = 0
    /\ old_tty_attrs = None /\ raw_entered = FALSE
    /\ master_fd = "unopened" /\ slave_fd = "unopened"
    /\ chan = <<>> /\ ready = {}
    /\ child = "none" /\ child_status = NoInt
    /\ child_end = FALSE /\ desc_end = FALSE /\ kill_sent = FALSE
    /\ nwrites = 0 /\ returncode = NoInt
    /\ data = <<>> /\ output_data = <<>> /\ read_log = <<>>
    /\ tty_out = <<>> /\ tty_locked = <<>>
    /\ stdin_buf = <<>> /\ child_in = <<>> /\ nkeys = 0
    /\ expired = FALSE /\ timed_out = FALSE /\ fault = None
    /\ rpc = "unstarted" /\ rchar = <<>> /\ rpending = <<>>

\* a _spin thread that has been started and has not left its loop
Alive(t) == spin_pc[t] \notin {"unborn", "done"}

\* Spinner.start(m)
CallStart ==
    /\ call = "idle" /\ ncalls < MaxCalls
    /\ \E m \in Messages :
        /\ last_call' = Called("start", m)
        /\ message' = IF m # None THEN m ELSE message
        /\ IF spinner_running
           THEN UNCHANGED << spinnerVars, spin_pc >>
           ELSE /\ spinner_running' = TRUE
                /\ spinner_thread' = TRUE
                /\ spinner_starts' = spinner_starts + 1
                /\ spin_pc' = [spin_pc EXCEPT ![spinner_starts + 1] = "test"]
    /\ ncalls' = ncalls + 1
    /\ UNCHANGED << engineVars, agentVars, normalizeVars, visible, lock, now, last_print_time, line,
                    call >>

\* Spinner.stop() is called
CallStop ==
    /\ call = "idle" /\ ncalls < MaxCalls
    /\ call' = "stop_acquire"
    /\ ncalls' = ncalls + 1
    /\ UNCHANGED << engineVars, agentVars, normalizeVars, spinnerVars, visible, lock,
                    message, now, last_print_time, line, spin_pc, last_call >>

\* stop: `with self.lock`
StopAcquire ==
    /\ call = "stop_acquire" /\ lock = "free"
    /\ lock' = "caller"
    /\ call' = "stop_locked"
    /\ UNCHANGED << engineVars, agentVars, normalizeVars, spinnerVars, visible, message,
                    now, last_print_time, line, spin_pc, last_call, ncalls >>

\* stop: the body of the with block; "\r\033[K" erases the current line
StopLocked ==
    /\ call = "stop_locked"
    /\ spinner_running' = FALSE
    /\ visible' = FALSE
    /\ line' = <<>>
    /\ lock' = "free"
    /\ call' = "stop_join"
    /\ UNCHANGED << engineVars, agentVars, normalizeVars, spinner_thread, spinner_starts,
                    message, now, last_print_time, spin_pc, last_call, ncalls >>

\* faulty variant: stop returns without waiting for the thread
StopJoinNoWait ==
    /\ call = "stop_join"
    /\ spinner_thread' = FALSE
    /\ call' = "idle"
    /\ last_call' = Called("stop", None)
    /\ UNCHANGED << engineVars, agentVars, normalizeVars, spinner_running, spinner_starts,
                    visible, lock, message, now, last_print_time, line, spin_pc, ncalls >>

\* stop: `if self.thread: self.thread.join(); self.thread = None`; the
\* thread self.thread names is the one started last
StopJoin ==
    /\ call = "stop_join"
    /\ spinner_thread => spin_pc[spinner_starts] = "done"
    /\ spinner_thread' = FALSE
    /\ call' = "idle"
    /\ last_call' = Called("stop", None)
    /\ UNCHANGED << engineVars, agentVars, normalizeVars, spinner_running, spinner_starts,
                    visible, lock, message, now, last_print_time, line, spin_pc, ncalls >>

\* Spinner.write(content) is called
CallWrite ==
    /\ call = "idle" /\ ncalls < MaxCalls
    /\ call' = "write_acquire"
    /\ ncalls' = ncalls + 1
    /\ UNCHANGED << engineVars, agentVars, normalizeVars, spinnerVars, visible, lock,
                    message, now, last_print_time, line, spin_pc, last_call >>

\* write: `with self.lock`
WriteAcquire ==
    /\ call = "write_acquire" /\ lock = "free"
    /\ lock' = "caller"
    /\ call' = "write_locked"
    /\ UNCHANGED << engineVars, agentVars, normalizeVars, spinnerVars, visible, message,
                    now, last_print_time, line, spin_pc, last_call, ncalls >>

\* faulty variant: the content is written without erasing a frame that is
\* shown
WriteLockedNoErase ==
    /\ call = "write_locked"
    /\ IF ~spinner_running
       THEN UNCHANGED << visible, line, last_print_time >>
       ELSE /\ visible' = FALSE
            /\ line' = Append(line, Content)
            /\ last_print_time' = now
    /\ lock' = "free"
    /\ call' = "idle"
    /\ last_call' = Called("write", None)
    /\ UNCHANGED << engineVars, agentVars, normalizeVars, spinnerVars, message, spin_pc,
                    ncalls, now >>

\* write: the body of the with block: nothing when not running; otherwise
\* the frame, if one is shown, is erased, the content is written and
\* last_print_time is set to now
WriteLocked ==
    /\ call = "write_locked"
    /\ IF ~spinner_running
       THEN UNCHANGED << visible, line, last_print_time >>
       ELSE /\ visible' = FALSE
            /\ line' = Append(IF visible THEN <<>> ELSE line, Content)
            /\ last_print_time' = now
    /\ lock' = "free"
    /\ call' = "idle"
    /\ last_call' = Called("write", None)
    /\ UNCHANGED << engineVars, agentVars, normalizeVars, spinnerVars, message, spin_pc,
                    ncalls, now >>

\* _spin: `while self.running`
SpinTest(t) ==
    /\ spin_pc[t] = "test"
    /\ spin_pc' = [spin_pc EXCEPT ![t] = IF spinner_running THEN "acquire"
                                                           ELSE "done"]
    /\ UNCHANGED << engineVars, agentVars, normalizeVars, spinnerVars, visible, lock,
                    message, now, last_print_time, line, call, last_call, ncalls >>

\* _spin: `with self.lock`
SpinAcquire(t) ==
    /\ spin_pc[t] = "acquire" /\ lock = "free"
    /\ lock' = "spin"
    /\ spin_pc' = [spin_pc EXCEPT ![t] = "check"]
    /\ UNCHANGED << engineVars, agentVars, normalizeVars, spinnerVars, visible, message,
                    now, last_print_time, line, call, last_call, ncalls >>

\* faulty variant: the frame is drawn whatever the time of the last write
SpinCheckNoDebounce(t) ==
    /\ spin_pc[t] = "check"
    /\ spin_pc' = [spin_pc EXCEPT ![t] = "write_frame"]
    /\ UNCHANGED << engineVars, agentVars, normalizeVars, spinnerVars, visible, message,
                    now, last_print_time, line, call, last_call, ncalls,
                    lock >>

\* _spin: `if time.time() - self.last_print_time > 0.1`; the lock is
\* released when nothing is to be drawn
SpinCheck(t) ==
    /\ spin_pc[t] = "check"
    /\ IF ~(now - last_print_time > 0)
       THEN /\ lock' = "free"
            /\ spin_pc' = [spin_pc EXCEPT ![t] = "sleep"]
       ELSE /\ spin_pc' = [spin_pc EXCEPT ![t] = "write_frame"]
            /\ UNCHANGED lock
    /\ UNCHANGED << engineVars, agentVars, normalizeVars, spinnerVars, visible, message,
                    now, last_print_time, line, call, last_call, ncalls >>

\* _spin: the frame "\r<glyph> <message>\033[K" replaces the current line;
\* self.visible = True; the with block ends
SpinWriteFrame(t) ==
    /\ spin_pc[t] = "write_frame"
    /\ line' = << Frame >>
    /\ visible' = TRUE
    /\ lock' = "free"
    /\ spin_pc' = [spin_pc EXCEPT ![t] = "sleep"]
    /\ UNCHANGED << engineVars, agentVars, normalizeVars, spinnerVars, message, now, last_print_time,
                    call, last_call, ncalls >>

\* _spin: time.sleep(self.delay); i += 1
SpinSleep(t) ==
    /\ spin_pc[t] = "sleep"
    /\ spin_pc' = [spin_pc EXCEPT ![t] = "test"]
    /\ UNCHANGED << engineVars, agentVars, normalizeVars, spinnerVars, visible, lock,
                    message, now, last_print_time, line, call, last_call, ncalls >>

\* more than 0.1 s have passed since the last write of content
DebounceOver ==
    /\ now = last_print_time
    /\ now' = now + 1
    /\ UNCHANGED last_print_time
    /\ UNCHANGED << engineVars, agentVars, normalizeVars, spinnerVars, visible, lock,
                    message, line, spin_pc, call, last_call, ncalls >>

Caller == \/ CallStart \/ CallStop \/ StopAcquire \/ StopLocked \/ StopJoin
          \/ CallWrite \/ WriteAcquire \/ WriteLocked

Spin == \E t \in Threads :
            \/ SpinTest(t) \/ SpinAcquire(t) \/ SpinCheck(t)
            \/ SpinWriteFrame(t) \/ SpinSleep(t)

SpinnerInit == EngineIdle /\ SpinnerIdle /\ NormalizeIdle /\ NoAgent

SpinnerNext == Caller \/ Spin \/ DebounceOver

SpinnerSpec == SpinnerInit /\ [][SpinnerNext]_vars

(* ----------------- process_carriage_return by itself ------------------ *)
\* every text over Alphabet of length at most MaxText
AllTexts == UNION { Texts(n) : n \in 0..MaxText }

NormalizeInit ==
    /\ EngineIdle /\ SpinnerIdle /\ NoAgent
    /\ raw_text \in AllTexts
    /\ normalized = <<>>
    /\ applied = FALSE

\* normalized = process_carriage_return(raw_text)
Normalize ==
    /\ ~applied
    /\ normalized' = process_carriage_return(raw_text)
    /\ applied' = TRUE
    /\ UNCHANGED << engineVars, agentVars, spinnerVars, raw_text, visible, lock, message,
                    now, last_print_time, line, spin_pc, call, last_call, ncalls >>

NormalizeNext == Normalize

NormalizeSpec == NormalizeInit /\ [][NormalizeNext]_vars

(* ------------------------- ShexAgent.run ------------------------------ *)
\* The agent's loop: it asks the model, handles the tool calls of the answer
\* by execute_command, and asks again, until the model answers without tool
\* calls or the retry limit ends the run.  execute_command is taken here as
\* a whole: it starts its own animation after the confirmation and stops it
\* before it returns.
spinUnitVars == << visible, lock, message, now, last_print_time, line,
                   spin_pc, call, last_call, ncalls >>
outsideAgent == << engineVars, spinUnitVars, normalizeVars >>

\* the ids of the tool calls of one answer of the model; "" is a call whose
\* id never arrived
Responses == { <<>>, <<"a">>, <<"">>, <<"a", "b">>, <<"", "b">>, <<"a", "">> }

Msg(role, ids, id) == [role |-> role, tool_calls |-> ids, tool_call_id |-> id]

RECURSIVE WithId(_)
\* [tc for tc in tool_calls if tc["id"]]
WithId(ids) ==
    IF ids = <<>> THEN <<>>
    ELSE (IF Head(ids) # "" THEN <<Head(ids)>> ELSE <<>>) \o WithId(Tail(ids))

\* self.stop_spinner(), if set: Spinner.stop clears the running flag
StopThinking ==
    IF start_spinner # None THEN thinking' = FALSE ELSE UNCHANGED thinking

\* run is called: the user message is appended and the counters are set
Run ==
    /\ run_pc \in {"idle", "returned", "raised"}
    /\ llm_calls < MaxLlmCalls
    /\ messages' = Append(messages, Msg("user", <<>>, None))
    /\ retry_count' = 0
    /\ total_retries' = 0
    /\ continue_calls' = <<>>
    /\ executed' = 0 /\ failed' = 0 /\ approved_at' = 0
    /\ run_result' = NoRunResult
    /\ run_pc' = "start_spinner"
    /\ UNCHANGED << outsideAgent, spinnerVars, agentConfig, llm_calls,
                    thinkVars, responseVars >>

\* faulty variant: the slot is not cleared when its message is used
StartThinkingKeepsSlot ==
    /\ run_pc = "start_spinner"
    /\ llm_calls < MaxLlmCalls
    /\ IF start_spinner # None
       THEN /\ thinking' = TRUE
            /\ thinking_message' = IF next_spinner_message # None
                                   THEN next_spinner_message
                                   ELSE "Thinking..."
            /\ handled' = FALSE
            /\ UNCHANGED next_spinner_message
       ELSE UNCHANGED thinkVars
    /\ llm_calls' = llm_calls + 1
    /\ first_chunk' = TRUE
    /\ tool_calls' = <<>>
    /\ run_pc' = "call_llm"
    /\ UNCHANGED << outsideAgent, spinnerVars, agentConfig, run_result,
                    messages, tc_index, tool_success, retryVars >>

\* the top of the loop, in both branches: the animation is started with the
\* message of the slot or the default one, and the slot is cleared
StartThinking ==
    /\ run_pc = "start_spinner"
    /\ llm_calls < MaxLlmCalls
    /\ IF start_spinner # None
       THEN /\ thinking' = TRUE
            /\ thinking_message' = IF next_spinner_message # None
                                   THEN next_spinner_message
                                   ELSE "Thinking..."
            /\ next_spinner_message' = None
            /\ handled' = FALSE
       ELSE UNCHANGED thinkVars
    /\ llm_calls' = llm_calls + 1
    /\ first_chunk' = TRUE
    /\ tool_calls' = <<>>
    /\ run_pc' = "call_llm"
    /\ UNCHANGED << outsideAgent, spinnerVars, agentConfig, run_result,
                    messages, tc_index, tool_success, retryVars >>

\* streaming: the first chunk arrives and the animation is stopped
StreamFirstChunk ==
    /\ run_pc = "call_llm" /\ stream_fn # None
    /\ StopThinking
    /\ first_chunk' = FALSE
    /\ run_pc' = "streaming"
    /\ UNCHANGED << outsideAgent, spinnerVars, agentConfig, run_result,
                    messages, llm_calls, thinking_message,
                    next_spinner_message, handled, tool_calls, tc_index,
                    tool_success, retryVars >>

\* streaming: the rest of the chunks; the tool calls are put together
StreamRest ==
    /\ run_pc = "streaming"
    /\ \E r \in Responses : tool_calls' = r
    /\ run_pc' = "stream_end"
    /\ UNCHANGED << outsideAgent, spinnerVars, agentConfig, run_result,
                    messages, llm_calls, thinkVars, first_chunk, tc_index,
                    tool_success, retryVars >>

\* streaming: the answer has no chunk at all
StreamEmpty ==
    /\ run_pc = "call_llm" /\ stream_fn # None
    /\ run_pc' = "stream_end"
    /\ UNCHANGED << outsideAgent, spinnerVars, agentConfig, run_result,
                    messages, llm_calls, thinkVars, responseVars, retryVars >>

\* streaming: `if first_chunk and self.stop_spinner: self.stop_spinner()`
StreamEnd ==
    /\ run_pc = "stream_end"
    /\ IF first_chunk THEN StopThinking ELSE UNCHANGED thinking
    /\ run_pc' = "append_assistant"
    /\ UNCHANGED << outsideAgent, spinnerVars, agentConfig, run_result,
                    messages, llm_calls, thinking_message,
                    next_spinner_message, handled, responseVars, retryVars >>

\* streaming: the call or the stream raises an Exception; `except Exception`
\* stops the animation and raises again
StreamFails ==
    /\ run_pc \in {"call_llm", "streaming"} /\ stream_fn # None
    /\ StopThinking
    /\ run_pc' = "raised"
    /\ UNCHANGED << outsideAgent, spinnerVars, agentConfig, run_result,
                    messages, llm_calls, thinking_message,
                    next_spinner_message, handled, responseVars, retryVars >>

\* streaming: KeyboardInterrupt (the user's Ctrl-C) while the call or the
\* stream is waited for; it is no Exception, so no handler of run runs
StreamInterrupted ==
    /\ run_pc \in {"call_llm", "streaming"} /\ stream_fn # None
    /\ run_pc' = "raised"
    /\ UNCHANGED << outsideAgent, spinnerVars, agentConfig, run_result,
                    messages, llm_calls, thinkVars, responseVars, retryVars >>

\* not streaming: the call returns; `finally` stops the animation
LlmReturns ==
    /\ run_pc = "call_llm" /\ stream_fn = None
    /\ StopThinking
    /\ \E r \in Responses : tool_calls' = r
    /\ run_pc' = "append_assistant"
    /\ UNCHANGED << outsideAgent, spinnerVars, agentConfig, run_result,
                    messages, llm_calls, thinking_message,
                    next_spinner_message, handled, first_chunk, tc_index,
                    tool_success, retryVars >>

\* not streaming: the call raises, an Exception or KeyboardInterrupt alike;
\* `finally` stops the animation
LlmFails ==
    /\ run_pc = "call_llm" /\ stream_fn = None
    /\ StopThinking
    /\ run_pc' = "raised"
    /\ UNCHANGED << outsideAgent, spinnerVars, agentConfig, run_result,
                    messages, llm_calls, thinking_message,
                    next_spinner_message, handled, responseVars, retryVars >>

\* the assistant message is appended (streaming keeps the calls that have an
\* id), and run returns the content when there is no tool call to handle
AppendAssistant ==
    /\ run_pc = "append_assistant"
    /\ LET recorded == IF stream_fn # None THEN WithId(tool_calls)
                                           ELSE tool_calls
       IN  /\ messages' = Append(messages, Msg("assistant", recorded, None))
           /\ IF recorded = <<>>
              THEN /\ run_pc' = "returned"
                   /\ run_result' = [kind |-> "content"]
              ELSE /\ run_pc' = "tools"
                   /\ UNCHANGED run_result
    /\ tc_index' = 1
    /\ UNCHANGED << outsideAgent, spinnerVars, agentConfig, llm_calls,
                    thinkVars, first_chunk, tool_calls, tool_success,
                    retryVars >>

\* the for loop over the tool calls is at a call that is handled: every call
\* when not streaming, the calls with an id when streaming
AtCall ==
    /\ run_pc = "tools"
    /\ tc_index <= Len(tool_calls)
    /\ stream_fn # None => tool_calls[tc_index] # ""

\* streaming: `if tc_data["id"]` skips a call without id
SkipCall ==
    /\ run_pc = "tools"
    /\ tc_index <= Len(tool_calls)
    /\ stream_fn # None /\ tool_calls[tc_index] = ""
    /\ tc_index' = tc_index + 1
    /\ UNCHANGED << outsideAgent, spinnerVars, agentConfig, run_pc, run_result,
                    messages, llm_calls, thinkVars, first_chunk, tool_calls,
                    tool_success, retryVars >>

\* the for loop is over: back to the top of `while True`
NextIteration ==
    /\ run_pc = "tools"
    /\ tc_index > Len(tool_calls)
    /\ run_pc' = "start_spinner"
    /\ UNCHANGED << outsideAgent, spinnerVars, agentConfig, run_result,
                    messages, llm_calls, thinkVars, responseVars, retryVars >>

\* _handle_tool_call raises (json.loads of arguments that are no JSON)
HandleRaises ==
    /\ AtCall
    /\ run_pc' = "raised"
    /\ UNCHANGED << outsideAgent, spinnerVars, agentConfig, run_result,
                    messages, llm_calls, thinkVars, responseVars, retryVars >>

\* _handle_tool_call of a tool that is not execute_command: the output has
\* no "success" key, which output.get("success", True) reads as success
HandleUnknown ==
    /\ AtCall
    /\ tool_success' = TRUE
    /\ run_pc' = "handled"
    /\ UNCHANGED << outsideAgent, spinnerVars, agentConfig, run_result,
                    messages, llm_calls, thinkVars, first_chunk, tool_calls,
                    tc_index, retryVars >>

\* execute_command is called: either the user declines the command (no
\* child, no animation, success False), or the engine starts its animation
\* and spawns the command
ExecBegin ==
    /\ AtCall
    /\ \/ /\ tool_success' = FALSE
          /\ failed' = failed + 1
          /\ run_pc' = "handled"
          /\ UNCHANGED << spinnerVars, executed >>
       \/ /\ SpinnerStart
          /\ executed' = executed + 1
          /\ run_pc' = "exec"
          /\ UNCHANGED << tool_success, failed >>
    /\ UNCHANGED << outsideAgent, agentConfig, run_result, messages,
                    llm_calls, thinkVars, first_chunk, tool_calls, tc_index,
                    retry_count, total_retries, continue_calls, approved_at >>

\* execute_command returns: the engine's animation is stopped, the result
\* reports success or failure
ExecEnd ==
    /\ run_pc = "exec"
    /\ SpinnerStop
    /\ \E ok \in BOOLEAN :
          /\ tool_success' = ok
          /\ failed' = IF ok THEN failed ELSE failed + 1
    /\ run_pc' = "handled"
    /\ UNCHANGED << outsideAgent, agentConfig, run_result, messages,
                    llm_calls, thinkVars, first_chunk, tool_calls, tc_index,
                    retry_count, total_retries, continue_calls, executed,
                    approved_at >>

\* faulty variant: the limit is met only when the count has passed it
AfterToolCallLate ==
    /\ run_pc = "handled"
    /\ messages' = Append(messages, Msg("tool", <<>>, tool_calls[tc_index]))
    /\ next_spinner_message' = "analyzing"
    /\ handled' = TRUE
    /\ IF tool_success
       THEN /\ tc_index' = tc_index + 1
            /\ run_pc' = "tools"
            /\ UNCHANGED << retry_count, total_retries, continue_calls,
                            approved_at, run_result >>
       ELSE /\ total_retries' = total_retries + 1
            /\ IF retry_count + 1 > max_retries
               THEN \/ /\ continue_fn # None
                       /\ continue_calls'
                            = Append(continue_calls, total_retries + 1)
                       /\ retry_count' = 0
                       /\ approved_at' = failed
                       /\ tc_index' = tc_index + 1
                       /\ run_pc' = "tools"
                       /\ UNCHANGED run_result
                    \/ /\ continue_calls'
                            = IF continue_fn # None
                              THEN Append(continue_calls, total_retries + 1)
                              ELSE continue_calls
                       /\ retry_count' = retry_count + 1
                       /\ run_result' = [kind |-> "exec_failed",
                                         count |-> total_retries + 1]
                       /\ run_pc' = "returned"
                       /\ UNCHANGED << tc_index, approved_at >>
               ELSE /\ retry_count' = retry_count + 1
                    /\ tc_index' = tc_index + 1
                    /\ run_pc' = "tools"
                    /\ UNCHANGED << continue_calls, approved_at, run_result >>
    /\ UNCHANGED << outsideAgent, spinnerVars, agentConfig, llm_calls,
                    thinking, thinking_message, first_chunk, tool_calls,
                    tool_success, executed, failed >>

\* the rest of the loop body after _handle_tool_call: the tool message is
\* appended, the slot is set, and a failure is counted; at the limit
\* continue_fn, if set, is asked: a true answer resets retry_count, anything
\* else ends the run with the failure message
AfterToolCall ==
    /\ run_pc = "handled"
    /\ messages' = Append(messages, Msg("tool", <<>>, tool_calls[tc_index]))
    /\ next_spinner_message' = "analyzing"
    /\ handled' = TRUE
    /\ IF tool_success
       THEN /\ tc_index' = tc_index + 1
            /\ run_pc' = "tools"
            /\ UNCHANGED << retry_count, total_retries, continue_calls,
                            approved_at, run_result >>
       ELSE /\ total_retries' = total_retries + 1
            /\ IF retry_count + 1 >= max_retries
               THEN \/ /\ continue_fn # None
                       /\ continue_calls'
                            = Append(continue_calls, total_retries + 1)
                       /\ retry_count' = 0
                       /\ approved_at' = failed
                       /\ tc_index' = tc_index + 1
                       /\ run_pc' = "tools"
                       /\ UNCHANGED run_result
                    \/ /\ continue_calls'
                            = IF continue_fn # None
                              THEN Append(continue_calls, total_retries + 1)
                              ELSE continue_calls
                       /\ retry_count' = retry_count + 1
                       /\ run_result' = [kind |-> "exec_failed",
                                         count |-> total_retries + 1]
                       /\ run_pc' = "returned"
                       /\ UNCHANGED << tc_index, approved_at >>
               ELSE /\ retry_count' = retry_count + 1
                    /\ tc_index' = tc_index + 1
                    /\ run_pc' = "tools"
                    /\ UNCHANGED << continue_calls, approved_at, run_result >>
    /\ UNCHANGED << outsideAgent, spinnerVars, agentConfig, llm_calls,
                    thinking, thinking_message, first_chunk, tool_calls,
                    tool_success, executed, failed >>

AgentInit ==
    /\ EngineIdle /\ SpinnerIdle /\ NormalizeIdle
    /\ stream_fn \in {None, "fn"}
    /\ continue_fn \in {None, "fn"}
    /\ start_spinner \in {None, "fn"}
    /\ max_retries \in 1..MaxRetries
    /\ AgentIdle

Llm == \/ StreamFirstChunk \/ StreamRest \/ StreamEmpty \/ StreamEnd
       \/ StreamFails \/ StreamInterrupted \/ LlmReturns \/ LlmFails

Tools == \/ SkipCall \/ NextIteration \/ HandleRaises \/ HandleUnknown
         \/ ExecBegin \/ ExecEnd \/ AfterToolCall

AgentNext == Run \/ StartThinking \/ Llm \/ AppendAssistant \/ Tools

AgentSpec == AgentInit /\ [][AgentNext]_vars

(* ------------------------------ claims -------------------------------- *)
Returned == pc = "returned"
Declined == confirm_calls # <<>> /\ ~confirm_calls[1].answer
ExitCodes == { ExitCode(s) : s \in ExitStatuses }
SignalCodes == { SignalCode(sig) : sig \in Signals }

RECURSIVE DecodeEach(_)
\* the text of each chunk of a log
DecodeEach(log) ==
    IF log = <<>> THEN <<>> ELSE <<decode(Head(log))>> \o DecodeEach(Tail(log))

\* the text the engine has made of the chunks it has read: each chunk is
\* decoded by itself on the pty path; the pipe is decoded as one stream, an
\* unfinished letter at its end being held back
TextRead ==
    IF PtyPath
    THEN joined(DecodeEach(read_log))
    ELSE LET b == joined(read_log)
         IN  IF rpending # <<>> THEN decode(SubSeq(b, 1, Len(b) - 1))
                                ELSE decode(b)

\* C1: on the PTY path, when execute_command has returned, on every exit
\* path, the terminal's input mode is the mode it had before the call.
C1_TerminalModeRestored ==
    (Returned /\ PtyPath) => term_mode = pre_mode

\* C2: on the PTY path, when the child has terminated on its own with exit
\* status c, the timeout has not fired and no engine fault occurred, the
\* result carries return_code = c and success = (c = 0).
C2_ReturnsChildStatus ==
    (Returned /\ PtyPath /\ fault = None /\ ~timed_out
        /\ child \in {"zombie", "reaped"} /\ child_status \in ExitCodes)
    => /\ result.return_code = child_status
       /\ result.success = (child_status = Int_(0))

\* C3: with is_dangerous set and a callback supplied, a child exists only
\* after the callback was called once with the command text and answered
\* true; the callback is called at most once, and never when is_dangerous is
\* false.
C3_ConfirmBeforeSpawn ==
    /\ (is_dangerous /\ confirm_fn # None /\ child # "none")
       => confirm_calls = << [arg |-> command, answer |-> TRUE] >>
    /\ Len(confirm_calls) <= 1
    /\ ~is_dangerous => confirm_calls = <<>>

C3_Witness ==
    /\ is_dangerous /\ confirm_fn # None
    /\ command # DefaultCommand
    /\ child = "running"
    /\ confirm_calls # <<>>

\* C4: when the callback declines, execute_command has returned success=false,
\* empty output and return_code -1, and nothing else happened: no child, no
\* animation start, no descriptor opened, terminal mode untouched.
C4_DeclineTouchesNothing ==
    Declined =>
        /\ Returned
        /\ result.kind = "result"
        /\ result.success = FALSE
        /\ result.output = <<>>
        /\ result.return_code = Int_(-1)
        /\ child = "none"
        /\ spinner_starts = 0 /\ ~spinner_running /\ ~spinner_thread
        /\ master_fd = "unopened" /\ slave_fd = "unopened"
        /\ term_mode = pre_mode /\ old_tty_attrs = None

C4_Witness == Declined /\ Returned /\ pre_mode # NoTty

\* C5: when the timeout check fires, the child is killed (unless it is found
\* dead already) and the call returns success=false, return_code -2 and the
\* normalization of the text of every chunk read, in order.
C5_TimeoutKeepsOutput ==
    (Returned /\ timed_out) =>
        /\ result.success = FALSE
        /\ result.return_code = Int_(-2)
        /\ result.output = process_carriage_return(TextRead)
        /\ child = "running" => kill_sent

C5_Witness ==
    /\ Returned /\ PtyPath /\ timed_out /\ kill_sent
    /\ Len(read_log) = 2
    /\ result.output # TextRead

\* C6: every call of execute_command eventually returns, whatever the child
\* and its descendants do, provided the engine's threads are scheduled and
\* time passes.
C6_EventuallyReturns == <>Returned

\* C7: an engine-level failure after the confirmation step (pty allocation,
\* spawning the shell, a channel error in the I/O loop) is returned as
\* success=false, empty output, the failure's text and return_code -3, with
\* the animation stopped.
C7_FaultsBecomeResults ==
    (Returned /\ fault # None) =>
        /\ result.success = FALSE
        /\ result.output = <<>>
        /\ result.error = fault
        /\ result.return_code = Int_(-3)
        /\ ~spinner_running

\* C8: on the PTY path, when execute_command has returned, neither of the two
\* pty descriptors opened for the request is still open.
C8_NoDescriptorLeak ==
    (Returned /\ PtyPath) => (master_fd # "open" /\ slave_fd # "open")

\* C9: when execute_command has returned on a path on which a child was
\* spawned and no engine fault occurred (normal termination, end of output,
\* timeout), the child's termination status has been collected. Stated for
\* the PTY path, where an uncollected child stays in the process table.
C9_ChildReaped ==
    (Returned /\ PtyPath /\ child # "none" /\ fault = None)
    => child = "reaped"

\* C10: a returned return_code is a number; it is -1 exactly when the
\* confirmation was declined, -2 exactly when the timeout fired and -3
\* exactly when an engine fault occurred. Runs in which a read of the
\* channel failed are left aside here (C7 is about them), so that the
\* property is decided by the codes a child's own termination produces.
C10_NegativeCodesReserved ==
    (Returned /\ fault # "OSError: read") =>
        /\ IsInt(result.return_code)
        /\ (result.return_code = Int_(-1)) <=> Declined
        /\ (result.return_code = Int_(-2)) <=> timed_out
        /\ (result.return_code = Int_(-3)) <=> (fault # None)

\* s is the beginning of t
IsPrefix(s, t) == Len(s) <= Len(t) /\ s = SubSeq(t, 1, Len(s))

\* C11: on the PTY path the captured buffer is, chunk by chunk and in the
\* order read, the text of the chunks read from the channel (all of them but
\* a chunk still in hand), and what was forwarded to the terminal is a
\* beginning of the same sequence: nothing reordered, duplicated or put
\* before an earlier chunk, in the main loop and in the drain phase.
C11_OrderPreserved ==
    PtyPath =>
        /\ IsPrefix(output_data, DecodeEach(read_log))
        /\ Len(read_log) - Len(output_data) = (IF data # <<>> THEN 1 ELSE 0)
        /\ IF old_tty_attrs # None
           THEN IsPrefix(tty_out, read_log)
           ELSE IsPrefix(tty_out, DecodeEach(read_log))
        /\ Len(tty_out) <= Len(output_data) + 1

\* the first chunk was captured in the main loop, a different second chunk
\* has been read and forwarded in the drain phase and is being captured
C11_Witness ==
    /\ PtyPath /\ old_tty_attrs # None
    /\ pc = "drain_append"
    /\ Len(read_log) = 2 /\ read_log[1] # read_log[2]
    /\ Len(output_data) = 1 /\ Len(tty_out) = 2

\* C12: on the PTY path, when the call has returned, every chunk appended to
\* the captured buffer was also written to the terminal, with raw mode
\* entered (the bytes themselves) and without it (their text).  Stated for
\* the calls in which no engine fault occurred.
C12_ShownEqualsCaptured ==
    (Returned /\ PtyPath /\ fault = None) =>
        IF old_tty_attrs # None THEN DecodeEach(tty_out) = output_data
                                ELSE tty_out = output_data

\* stop() was the last call made and it has returned
StopReturned == call = "idle" /\ last_call.op = "stop"

\* the terminal's current line shows an animation frame
FrameShown == \E i \in 1..Len(line) : line[i] = Frame

\* C13: when stop() has returned, in every interleaving with _spin, no _spin
\* thread is alive and the terminal line shows no animation frame (the last
\* thing the animation wrote is the erase).
C13_StopLeavesCleanLine ==
    StopReturned => /\ \A t \in Threads : ~Alive(t)
                    /\ ~FrameShown

\* C14: a _spin thread is about to write a frame only while the running
\* flag is set: once stop() has cleared the flag no frame is written.
C14_NoFrameAfterStop ==
    \A t \in Threads : spin_pc[t] = "write_frame" => spinner_running

\* C15: every write of child output the engine has made to the real terminal
\* since the animation was started was made while holding the Spinner's lock.
C15_WritesUnderLock ==
    \A i \in 1..Len(tty_locked) : tty_locked[i]

\* the _spin threads alive
AliveThreads == { t \in Threads : Alive(t) }

\* a step in which a call of start is made and returns
StartStep == ncalls' = ncalls + 1 /\ last_call'.op = "start"

\* C16: at most one _spin thread is alive at any time; a call of start made
\* while the animation runs creates no thread and replaces the message only
\* when one is given; a call of start made when it does not run (at first,
\* or after stop has returned) creates exactly one thread.
C16_OneAnimationThread ==
    /\ [](Cardinality(AliveThreads) <= 1)
    /\ [][StartStep =>
            /\ message' = IF last_call'.arg # None THEN last_call'.arg
                                                    ELSE message
            /\ IF spinner_running
               THEN AliveThreads' = AliveThreads
               ELSE /\ AliveThreads = {}
                    /\ Cardinality(AliveThreads') = 1]_vars

\* start, stop, start again: the first thread has ended and the second is
\* alive; a fourth call, a start, has returned
C16_Witness ==
    /\ spinner_starts = 2 /\ Alive(2) /\ spin_pc[1] = "done"
    /\ ncalls = 4 /\ last_call.op = "start" /\ call = "idle"

\* t holds neither a carriage return nor a newline
NoBreak(t) == \A i \in 1..Len(t) : t[i] \notin {CR, LF}

\* C17: for X and Y without carriage return and newline, Y not empty,
\* process_carriage_return(X CR Y LF) = Y LF; and the text
\* "A" CR "B" LF "A" LF (the shape of 'progress: 10%' CR 'progress: 100%' LF
\* 'done' LF) gives "B" LF "A" LF.
C17_OverwriteKeepsTerminator ==
    applied =>
        /\ \A k \in 1..Len(raw_text) :
              ( /\ raw_text[k] = CR
                /\ k + 1 < Len(raw_text) /\ raw_text[Len(raw_text)] = LF
                /\ NoBreak(SubSeq(raw_text, 1, k - 1))
                /\ NoBreak(SubSeq(raw_text, k + 1, Len(raw_text) - 1)) )
              => normalized = SubSeq(raw_text, k + 1, Len(raw_text))
        /\ raw_text = <<"A", CR, "B", LF, "A", LF>>
              => normalized = <<"B", LF, "A", LF>>

\* C18: for X and Y without carriage return and newline,
\* process_carriage_return(X CR LF Y) = X LF Y.
C18_CrLfIsOneTerminator ==
    applied =>
        \A k \in 1..Len(raw_text) :
          ( /\ raw_text[k] = CR
            /\ k < Len(raw_text) /\ raw_text[k + 1] = LF
            /\ NoBreak(SubSeq(raw_text, 1, k - 1))
            /\ NoBreak(SubSeq(raw_text, k + 2, Len(raw_text))) )
          => normalized = SubSeq(raw_text, 1, k - 1) \o <<LF>>
                            \o SubSeq(raw_text, k + 2, Len(raw_text))

\* C19: a text without carriage return is returned unchanged.
C19_NoCarriageReturnUnchanged ==
    (applied /\ \A i \in 1..Len(raw_text) : raw_text[i] # CR)
    => normalized = raw_text

\* a text with consecutive newlines and a newline at its end, and no
\* carriage return, has been normalized
C19_Witness ==
    /\ applied
    /\ raw_text = <<"A", LF, LF, "B", LF>>
    /\ normalized = raw_text

\* C20: process_carriage_return applied to its own result gives that result.
C20_Idempotent ==
    applied => process_carriage_return(normalized) = normalized

\* a text with a bare carriage return and a CR LF pair has been normalized to
\* something else, which still holds a newline
C20_Witness ==
    /\ applied
    /\ raw_text = <<"A", CR, "B", CR, LF, "A">>
    /\ normalized = <<"B", LF, "A">>

\* the engine is at a statement that writes a chunk to the terminal
Forwarding == pc \in {"forward", "drain_forward"}

\* C22: on the PTY path, from the moment the engine is about to write the
\* first chunk of child output to the terminal, the animation is stopped and
\* its thread has ended, and it stays so: no frame is written after or
\* between forwarded chunks.
C22_NoFrameAfterOutput ==
    (PtyPath /\ (Forwarding \/ tty_out # <<>> \/ output_data # <<>>))
    => (~spinner_running /\ ~spinner_thread)

\* raw mode: one chunk was forwarded and captured, the second is about to be
\* forwarded in the drain phase
C22_Witness ==
    /\ PtyPath /\ old_tty_attrs # None
    /\ pc = "drain_forward"
    /\ Len(tty_out) = 1 /\ Len(output_data) = 1
    /\ spinner_starts = 1

\* C23: in every state of the Spinner, in every interleaving of _spin, stop
\* and write, the visibility flag is set only while the running flag is set.
C23_VisibleImpliesRunning == visible => spinner_running

\* content stands on the line behind an animation frame
ContentAfterFrame ==
    \E i, j \in 1..Len(line) : i < j /\ line[i] = Frame /\ line[j] = Content

\* C24: the terminal line never shows content behind an animation frame, a
\* frame is on the line only while the visibility flag is set, and the body
\* of write runs with the lock held: write erases a shown frame before it
\* writes the content, in one critical section.
C24_WriteErasesFrame ==
    /\ ~ContentAfterFrame
    /\ FrameShown => visible
    /\ call = "write_locked" => lock = "caller"

\* write holds the lock while the animation runs and a frame is shown; its
\* body is the next step of the calling thread
C24_Witness ==
    /\ call = "write_locked" /\ lock = "caller"
    /\ spinner_running /\ visible /\ FrameShown

\* C25: a _spin thread writes a frame only when more than the debounce
\* window has passed since the last write of content, and last_print_time
\* never decreases.
C25_DebounceHolds ==
    /\ [](\A t \in Threads :
            spin_pc[t] = "write_frame" => now - last_print_time > 0)
    /\ [][last_print_time' >= last_print_time]_vars

\* content was written twice at different times, and a thread is about to
\* draw a frame after the window of the second write has passed
C25_Witness ==
    /\ \E t \in Threads : spin_pc[t] = "write_frame"
    /\ last_print_time > 1
    /\ now > last_print_time

\* C26: on the PTY path the terminal's input is polled, read and forwarded
\* to the child only when raw mode was entered, and what the child has
\* received is a prefix of the keystrokes typed, in the order typed.
C26_StdinOnlyInRawMode ==
    PtyPath =>
        /\ ("stdin" \in ready \/ pc = "read_stdin" \/ child_in # <<>>)
              => raw_entered
        /\ Len(child_in) + Len(stdin_buf) = nkeys

\* C27: in every result returned, on either path, success is true exactly
\* when return_code is 0, and the error text is empty unless the call was
\* declined, timed out or met a fault (i.e. whenever the result reports the
\* child's own termination).
C27_SuccessIffZero ==
    result.kind = "result" =>
        /\ result.success <=> (result.return_code = Int_(0))
        /\ (~Declined /\ ~timed_out /\ fault = None) => result.error = ""

\* a child that failed on its own on the pipe path, with output captured
C27_Witness ==
    /\ Returned /\ ~PtyPath /\ ~Declined /\ ~timed_out /\ fault = None
    /\ result.kind = "result"
    /\ ~result.success
    /\ result.return_code \in ExitCodes \ {Int_(0)}
    /\ output_data # <<>>

\* the pipe path has met its timeout and has stopped the animation
PipeTimedOutStopped ==
    ~PtyPath /\ timed_out /\ pc \in {"win_timeout_join", "returned"}

\* C28: on the pipe path, once the timeout has expired the child has been
\* sent the kill (unless found dead), the animation is stopped before the
\* reader is waited for, the call returns the timeout result whether or not
\* the reader has reached end-of-file, and from the stop on nothing the
\* reader reads reaches the terminal.
C28_PipeTimeout ==
    /\ []((~PtyPath /\ timed_out) =>
            /\ kill_sent \/ child # "running"
            /\ PipeTimedOutStopped => (~spinner_running /\ ~spinner_thread)
            /\ Returned => /\ result.success = FALSE
                           /\ result.return_code = Int_(-2)
                           /\ result.error = "command_timeout"
                           /\ result.output
                                = process_carriage_return(joined(output_data)))
    /\ [][PipeTimedOutStopped => tty_out' = tty_out]_vars

\* the call has returned the timeout result while the reader, not at
\* end-of-file, has read a chunk after the stop that was not shown
C28_Witness ==
    /\ PipeTimedOutStopped /\ Returned
    /\ rpc = "read" /\ ~Hangup
    /\ Len(read_log) = 2 /\ Len(tty_out) = 1

\* a step in which run starts the thinking animation
ThinkingStarts ==
    run_pc = "start_spinner" /\ run_pc' = "call_llm" /\ start_spinner # None

\* a step that ends the handling of one tool call
ToolCallHandled == run_pc = "handled" /\ run_pc' # "handled"

\* the executions that failed since the start of the run or since the last
\* approved continuation
FailedSinceApproval == failed - approved_at

\* run is at work on the loop, past the check of the retry limit
RunGoesOn == run_pc \notin {"idle", "handled", "returned", "raised"}

\* C21: every start of the thinking animation uses the message of the slot
\* when one is set and the default message otherwise, and clears the slot;
\* every handled tool call sets the slot; nothing else changes it; so the
\* slot holds a message exactly when a tool call was handled since the
\* animation was last started.
C21_NextMessageSlot ==
    /\ [](start_spinner # None => ((next_spinner_message # None) <=> handled))
    /\ [][ThinkingStarts =>
            /\ thinking_message' = IF next_spinner_message # None
                                   THEN next_spinner_message
                                   ELSE "Thinking..."
            /\ next_spinner_message' = None]_vars
    /\ [][ToolCallHandled => next_spinner_message' = "analyzing"]_vars
    /\ [][next_spinner_message' # next_spinner_message
            => (ThinkingStarts \/ ToolCallHandled)]_vars

\* the second call of the model is waited for under the message a handled
\* tool call has left in the slot, and the slot is empty again
C21_Witness ==
    /\ run_pc = "call_llm" /\ llm_calls = 2
    /\ thinking /\ thinking_message = "analyzing"
    /\ next_spinner_message = None
    /\ Len(messages) >= 4

\* C29: while run handles tool calls or executes a command, and when it has
\* returned or raised, the thinking animation is stopped; the thinking
\* animation and the engine's animation never run at the same time.
C29_ThinkingStopped ==
    /\ run_pc \in {"append_assistant", "tools", "exec", "handled",
                   "returned", "raised"} => ~thinking
    /\ ~(thinking /\ spinner_running)

\* C30: the continuation callback is called, with the number of failed
\* executions of the run, exactly in the steps in which the failures since
\* the start of the run or the last approval have reached max_retries;
\* without an approval such a step ends the run with the failure message
\* carrying that number, so the failures since the last approval never
\* exceed max_retries and run goes on only below the limit.
C30_RetryLimit ==
    /\ [](/\ FailedSinceApproval <= max_retries
          /\ RunGoesOn => FailedSinceApproval < max_retries
          /\ (run_pc = "returned" /\ run_result.kind = "exec_failed") =>
                /\ run_result.count = failed
                /\ FailedSinceApproval = max_retries
                /\ continue_fn # None =>
                      /\ continue_calls # <<>>
                      /\ continue_calls[Len(continue_calls)] = failed
          /\ continue_fn = None => continue_calls = <<>>)
    /\ [][ToolCallHandled =>
            /\ (continue_calls' = Append(continue_calls, failed))
                 <=> (/\ continue_fn # None /\ ~tool_success
                      /\ FailedSinceApproval = max_retries)
            /\ (continue_calls' # continue_calls)
                 => continue_calls' = Append(continue_calls, failed)
            /\ (/\ ~tool_success /\ FailedSinceApproval = max_retries
                /\ approved_at' = approved_at)
                 => /\ run_pc' = "returned"
                    /\ run_result'.kind = "exec_failed"
                    /\ run_result'.count = failed]_vars
    /\ [][RunGoesOn => continue_calls' = continue_calls]_vars
    /\ [][run_pc = "returned" => executed' = executed \/ executed' = 0]_vars

\* run has returned the failure message after one approved continuation,
\* the callback having been asked twice, with a tool call of the answer
\* left unhandled
C30_Witness ==
    /\ run_pc = "returned" /\ run_result.kind = "exec_failed"
    /\ continue_fn # None /\ Len(continue_calls) = 2
    /\ approved_at > 0
    /\ tc_index < Len(tool_calls)

\* the tool call with this id, recorded in the assistant message at position
\* i of the history, has a tool message with the same tool_call_id behind it
Answered(i, id) ==
    \E j \in (i + 1)..Len(messages) :
        messages[j].role = "tool" /\ messages[j].tool_call_id = id

\* C31: whenever run has returned, every tool call recorded in an assistant
\* message of the history is followed by a tool message with the same
\* tool_call_id, also when run returned at the retry limit.
C31_HistoryWellFormed ==
    run_pc = "returned" =>
        \A i \in 1..Len(messages) :
            messages[i].role = "assistant" =>
                \A k \in 1..Len(messages[i].tool_calls) :
                    Answered(i, messages[i].tool_calls[k])

====
